---------------------------- MODULE Spec2Model ----------------------------
(***************************************************************************)
(* Cinema-tickets purchase service: TicketService.purchaseTickets (the     *)
(* two-argument service with validation extracted into                     *)
(* #validatePurchaseRequest) together with the SnowflakeIDGenerator that   *)
(* gives every purchase attempt its transaction id.                        *)
(*                                                                         *)
(* Representation of JavaScript values                                     *)
(*  - accountId is a JS number that may be fractional.  It is held in      *)
(*    halves: the JS number n is the integer 2n (1.5 is 3, 1 is 2, -1 is   *)
(*    -2).  Number.isInteger(n) is "2n is even", n <= 0 is "2n <= 0".      *)
(*  - a line item is a record [isTicketTypeRequest, type, noOfTickets];    *)
(*    isTicketTypeRequest = FALSE is a plain object that is not an         *)
(*    instance of TicketTypeRequest.                                       *)
(*  - a thrown exception is a record [kind, message]; kind "none" means    *)
(*    the function returned normally.                                      *)
(*  - a message is a sequence of tokens; the token "{allowedTickets}" is   *)
(*    the placeholder of messages.max_allowed_tickets_err.                 *)
(*  - clock readings and stored timestamps are offsets from customEpoch    *)
(*    (Date.now() - customEpoch); the initial lastTimestamp -1 stays -1,   *)
(*    below every clock reading.                                           *)
(*  - a transaction id is the decimal string of the composed integer.      *)
(***************************************************************************)
EXTENDS Integers, Sequences, FiniteSets, TLC

VARIABLES
    pc,                 \* position of the current purchaseTickets call
    accountId,          \* first argument of the current call (in halves)
    ticketTypeRequests, \* rest arguments of the current call
    transactionId,      \* const transactionId of the current call
    calls,              \* collaborator calls made by the current call, in order
    result,             \* what the current call returned or threw
    log,                \* logger entries emitted by the current call
    gen,                \* this.snowflakeGenerator: lastTimestamp, sequence
    now,                \* the wall clock read by _currentTimestamp
    nCalls,             \* calls begun so far on this instance
    issued,             \* history: numeric values of the ids generateId returned
    threads,            \* generateId calls in flight: line reached, local timestamp
    rolledBack,         \* history: the wall clock was ever set back
    instances           \* SnowflakeIDGenerator instances constructed on their own

vars == <<pc, accountId, ticketTypeRequests, transactionId, calls, result,
          log, gen, now, nCalls, issued, threads, rolledBack, instances>>

---------------------------------------------------------------------------
\* Bounds of the model

MaxItems == 3

MaxCalls == 2

MaxClock == 1

MaxRecorded == 3

MaxGenCalls == 3

MaxInstanceCalls == 2

---------------------------------------------------------------------------
\* Configuration (config/TicketsConfig.js)

ticketCategories == {"INFANT", "CHILD", "ADULT"}

MAX_TICKETS_PER_ORDER == 25

ticketCost == [t \in ticketCategories |->
                 CASE t = "INFANT" -> 0
                   [] t = "CHILD"  -> 15
                   [] t = "ADULT"  -> 25]

\* messages.json, by key.  Only max_allowed_tickets_err carries a placeholder.
messages == [k \in {"invalid_request", "invalid_ticket_type_request",
                    "duplicate_ticket_type_error", "min_number_tickets_err",
                    "max_allowed_tickets_err", "error_adult_required",
                    "error_too_many_infants", "error_infant_only_not_allowed",
                    "error_infant_exceeds_allowed", "seat_reservation_error",
                    "seat_reservation_failed", "seat_reservation_successful",
                    "payment_error", "payment_successful",
                    "purchase_successful"} |->
               IF k = "max_allowed_tickets_err"
               THEN <<k, "{allowedTickets}">>
               ELSE <<k>>]

\* String.prototype.replace(pattern, value): the first occurrence only.
RECURSIVE replace(_, _, _)
replace(msg, placeholder, value) ==
    IF msg = <<>> THEN <<>>
    ELSE IF Head(msg) = placeholder THEN <<value>> \o Tail(msg)
    ELSE <<Head(msg)>> \o replace(Tail(msg), placeholder, value)

\* new TypeError(message) / new InvalidPurchaseException(message)
TypeError(message) == [kind |-> "TypeError", message |-> message, log |-> <<>>]

InvalidPurchaseException(message) ==
    [kind |-> "InvalidPurchaseException", message |-> message, log |-> <<>>]

NoError == [kind |-> "none", message |-> <<>>, log |-> <<>>]

\* Mutant of the log line: the transaction id is left out.
LogEntry_noTransactionId(level, tid, event) ==
    [level |-> level, transactionId |-> "", event |-> event]

\* logger.<level>(`Transaction ID: ${transactionId} - ...`)
LogEntry(level, tid, event) ==
    [level |-> level, transactionId |-> tid, event |-> event]

Logged(err, entry) == [err EXCEPT !.log = <<entry>>]

---------------------------------------------------------------------------
\* SnowflakeIDGenerator

\* TicketService constructor default machineId = 1, masked with 0x3FF
machineId == 1

\* (sequence + 1) & 0xFFF keeps the low 12 bits: the remainder modulo 4096
SequenceModulus == 4096

RECURSIVE BitOr(_, _)
BitOr(a, b) ==
    IF a = 0 THEN b
    ELSE IF b = 0 THEN a
    ELSE (IF a % 2 = 1 \/ b % 2 = 1 THEN 1 ELSE 0) + 2 * BitOr(a \div 2, b \div 2)

ShiftLeft(a, n) == a * (2 ^ n)

\* BigInt.prototype.toString(), and the string a number is replaced by
toString(n) == ToString(n)

\* Mutant of the composition: the timestamp is shifted by 12 bits only.
composeValue_narrowShift(timestamp, sequence) ==
    BitOr(BitOr(ShiftLeft(timestamp, 12), ShiftLeft(machineId, 12)), sequence)

\* machineId & 0x3FF keeps the low 10 bits: the remainder modulo 1024
MachineIdModulus == 1024

\* Machine ids a generator may be constructed with.
MachineIds == {0, 1, 1023, 1024, 1025}

\* Mutant of the constructor: only the lowest bit of the machine id is kept.
maskMachineId_lowBit(m) == m % 2

\* Mutant of the constructor: the machine id is stored unmasked.
maskMachineId_none(m) == m

\* constructor: this.machineId = machineId & 0x3FF
maskMachineId(m) == m % MachineIdModulus

\* (timestamp - customEpoch) << 22 | this.machineId << 12 | this.sequence
composeValueWith(storedMachineId, timestamp, sequence) ==
    BitOr(BitOr(ShiftLeft(timestamp, 22), ShiftLeft(storedMachineId, 12)),
          sequence)

\* the same for the generator of the service (machineId = 1), as a BigInt
composeValue(timestamp, sequence) ==
    composeValueWith(maskMachineId(machineId), timestamp, sequence)

\* the id returned: the decimal string of the composed integer
composeId(timestamp, sequence) == toString(composeValue(timestamp, sequence))

\* What a generateId call leaves behind and returns.
Generated(timestamp, sequence) ==
    [gen   |-> [lastTimestamp |-> timestamp, sequence |-> sequence],
     now   |-> timestamp,
     value |-> composeValue(timestamp, sequence),
     id    |-> composeId(timestamp, sequence)]

\* Mutant of generateId: the incremented sequence is not masked to 12 bits.
generateId_noSequenceMask(g, clock) ==
    IF clock = g.lastTimestamp
    THEN { Generated(clock, g.sequence + 1) }
    ELSE { Generated(clock, 0) }

\* Mutant of generateId: the sequence is not incremented within a millisecond.
generateId_noIncrement(g, clock) ==
    IF clock = g.lastTimestamp
    THEN { Generated(clock, g.sequence) }
    ELSE { Generated(clock, 0) }

\* Mutant of generateId: no wait for the next millisecond when the sequence
\* wraps.
generateId_noWait(g, clock) ==
    IF clock = g.lastTimestamp
    THEN { Generated(clock, (g.sequence + 1) % SequenceModulus) }
    ELSE { Generated(clock, 0) }

\* Mutant of generateId: a clock reading below lastTimestamp is waited out.
generateId_waitOnRollback(g, clock) ==
    IF clock < g.lastTimestamp
    THEN { Generated(g.lastTimestamp, (g.sequence + 1) % SequenceModulus) }
    ELSE IF clock = g.lastTimestamp
    THEN LET s == (g.sequence + 1) % SequenceModulus IN
         IF s = 0
         THEN { Generated(t, s) : t \in (clock + 1)..MaxClock }
         ELSE { Generated(clock, s) }
    ELSE { Generated(clock, 0) }

\* generateId as one step: the set of ways the call can return when the clock
\* reads `clock` at its first line.  The busy-wait entered when the sequence
\* wraps ends at some later clock reading t, which the call then uses.
generateId(g, clock) ==
    IF clock = g.lastTimestamp
    THEN LET s == (g.sequence + 1) % SequenceModulus IN
         IF s = 0
         THEN { Generated(t, s) : t \in (clock + 1)..MaxClock }
         ELSE { Generated(clock, s) }
    ELSE { Generated(clock, 0) }

---------------------------------------------------------------------------
\* Inputs

\* -1, 0, 1 and 1.5, in halves
AccountIds == {-2, 0, 2, 3}

\* noOfTickets is any integer: zero and negative counts can be constructed
Counts == {-1, 0, 1, 2, 25, 26}

LineItems ==
    [isTicketTypeRequest : {TRUE}, type : ticketCategories, noOfTickets : Counts]
    \cup {[isTicketTypeRequest |-> FALSE, type |-> "ADULT", noOfTickets |-> 2]}

RECURSIVE SeqsUpTo(_, _)
SeqsUpTo(S, n) ==
    IF n = 0 THEN {<<>>}
    ELSE LET shorter == SeqsUpTo(S, n - 1) IN
         shorter \cup {Append(s, x) : s \in {q \in shorter : Len(q) = n - 1}, x \in S}

Requests == SeqsUpTo(LineItems, MaxItems)

\* What a collaborator call does: it returns, or throws a TypeError, another
\* Error object (or any value with a message property that reads without
\* failing), null or undefined.
CollaboratorBehaviours == {"returned", "TypeError", "Error", "null", "undefined"}

\* The thrown values that have no properties.
Nullish == {"null", "undefined"}

\* `${thrown.message}` inside a catch clause when thrown is null or undefined:
\* the property read throws a TypeError of the engine before the logger is
\* called.
messageReadFailure(thrown) ==
    TypeError(IF thrown = "null"
              THEN <<"Cannot read properties of null (reading 'message')">>
              ELSE <<"Cannot read properties of undefined (reading 'message')">>)

---------------------------------------------------------------------------
\* TicketService helpers

NumberIsInteger(n) == n % 2 = 0

instanceofTicketTypeRequest(request) == request.isTicketTypeRequest

\* Mutant of #calculateTotalCost: only the first line item is priced.
calculateTotalCost_firstItemOnly(ticketRequests) ==
    IF ticketRequests = <<>> THEN 0
    ELSE ticketCost[ticketRequests[1].type] * ticketRequests[1].noOfTickets

\* #calculateTotalCost
RECURSIVE calculateTotalCost(_)
calculateTotalCost(ticketRequests) ==
    IF ticketRequests = <<>> THEN 0
    ELSE LET n == Len(ticketRequests)
             request == ticketRequests[n] IN
         calculateTotalCost(SubSeq(ticketRequests, 1, n - 1))
           + ticketCost[request.type] * request.noOfTickets

\* Mutant of #calculateTotalSeats: the INFANT filter is missing.
RECURSIVE calculateTotalSeats_withInfants(_)
calculateTotalSeats_withInfants(ticketRequests) ==
    IF ticketRequests = <<>> THEN 0
    ELSE LET n == Len(ticketRequests)
             request == ticketRequests[n] IN
         calculateTotalSeats_withInfants(SubSeq(ticketRequests, 1, n - 1))
           + request.noOfTickets

\* #calculateTotalSeats
RECURSIVE calculateTotalSeats(_)
calculateTotalSeats(ticketRequests) ==
    IF ticketRequests = <<>> THEN 0
    ELSE LET n == Len(ticketRequests)
             request == ticketRequests[n] IN
         calculateTotalSeats(SubSeq(ticketRequests, 1, n - 1))
           + (IF request.type # "INFANT" THEN request.noOfTickets ELSE 0)

\* ticketTypeRequests.reduce((acc, request) => ..., {}): the ticket summary, a
\* function from the categories present to their aggregated count.
RECURSIVE ticketSummaryOf(_)
ticketSummaryOf(requests) ==
    IF requests = <<>> THEN <<>>
    ELSE LET n == Len(requests)
             request == requests[n]
             acc == ticketSummaryOf(SubSeq(requests, 1, n - 1))
             old == IF request.type \in DOMAIN acc THEN acc[request.type] ELSE 0 IN
         [t \in (DOMAIN acc) \cup {request.type} |->
             IF t = request.type THEN old + request.noOfTickets ELSE acc[t]]

\* #calculateTotalTickets: Object.values(ticketRequests).reduce(...)
RECURSIVE SumOver(_, _)
SumOver(f, S) ==
    IF S = {} THEN 0
    ELSE LET t == CHOOSE x \in S : TRUE IN f[t] + SumOver(f, S \ {t})

calculateTotalTickets(summary) == SumOver(summary, DOMAIN summary)

\* Mutants of #validatePurchaseRequest: one check dropped in turn.
validatePurchaseRequest_noIntegerCheck(acct, requests, tid) ==
    IF acct <= 0
    THEN Logged(TypeError(messages["invalid_request"]),
                LogEntry("error", tid, "invalid_account_id"))
    ELSE IF Len(requests) = 0
            \/ ~(\A i \in 1..Len(requests) : instanceofTicketTypeRequest(requests[i]))
    THEN Logged(TypeError(messages["invalid_request"]),
                LogEntry("error", tid, "invalid_ticket_type_request"))
    ELSE IF Cardinality({requests[i].type : i \in 1..Len(requests)}) # Len(requests)
    THEN Logged(InvalidPurchaseException(messages["duplicate_ticket_type_error"]),
                LogEntry("error", tid, "duplicate_ticket_types"))
    ELSE NoError

validatePurchaseRequest_noEmptyCheck(acct, requests, tid) ==
    IF ~NumberIsInteger(acct) \/ acct <= 0
    THEN Logged(TypeError(messages["invalid_request"]),
                LogEntry("error", tid, "invalid_account_id"))
    ELSE IF ~(\A i \in 1..Len(requests) : instanceofTicketTypeRequest(requests[i]))
    THEN Logged(TypeError(messages["invalid_request"]),
                LogEntry("error", tid, "invalid_ticket_type_request"))
    ELSE IF Cardinality({requests[i].type : i \in 1..Len(requests)}) # Len(requests)
    THEN Logged(InvalidPurchaseException(messages["duplicate_ticket_type_error"]),
                LogEntry("error", tid, "duplicate_ticket_types"))
    ELSE NoError

validatePurchaseRequest_noDuplicateCheck(acct, requests, tid) ==
    IF ~NumberIsInteger(acct) \/ acct <= 0
    THEN Logged(TypeError(messages["invalid_request"]),
                LogEntry("error", tid, "invalid_account_id"))
    ELSE IF Len(requests) = 0
            \/ ~(\A i \in 1..Len(requests) : instanceofTicketTypeRequest(requests[i]))
    THEN Logged(TypeError(messages["invalid_request"]),
                LogEntry("error", tid, "invalid_ticket_type_request"))
    ELSE NoError

\* #validatePurchaseRequest
validatePurchaseRequest(acct, requests, tid) ==
    IF ~NumberIsInteger(acct) \/ acct <= 0
    THEN Logged(TypeError(messages["invalid_request"]),
                LogEntry("error", tid, "invalid_account_id"))
    ELSE IF Len(requests) = 0
            \/ ~(\A i \in 1..Len(requests) : instanceofTicketTypeRequest(requests[i]))
    THEN Logged(TypeError(messages["invalid_request"]),
                LogEntry("error", tid, "invalid_ticket_type_request"))
    ELSE IF Cardinality({requests[i].type : i \in 1..Len(requests)}) # Len(requests)
    THEN Logged(InvalidPurchaseException(messages["duplicate_ticket_type_error"]),
                LogEntry("error", tid, "duplicate_ticket_types"))
    ELSE NoError

\* Mutant of #checkTicketCount: no minimum, an order of no tickets passes.
checkTicketCount_noMinimum(summary) ==
    LET totalTickets == calculateTotalTickets(summary) IN
    IF totalTickets > MAX_TICKETS_PER_ORDER
    THEN InvalidPurchaseException(
             replace(messages["max_allowed_tickets_err"], "{allowedTickets}",
                     toString(MAX_TICKETS_PER_ORDER)))
    ELSE NoError

\* Mutant of #checkTicketCount: the limit compared with >= instead of >.
checkTicketCount_limitExclusive(summary) ==
    LET totalTickets == calculateTotalTickets(summary) IN
    IF totalTickets <= 0
    THEN InvalidPurchaseException(messages["min_number_tickets_err"])
    ELSE IF totalTickets >= MAX_TICKETS_PER_ORDER
    THEN InvalidPurchaseException(
             replace(messages["max_allowed_tickets_err"], "{allowedTickets}",
                     toString(MAX_TICKETS_PER_ORDER)))
    ELSE NoError

\* #checkTicketCount
checkTicketCount(summary) ==
    LET totalTickets == calculateTotalTickets(summary) IN
    IF totalTickets <= 0
    THEN InvalidPurchaseException(messages["min_number_tickets_err"])
    ELSE IF totalTickets > MAX_TICKETS_PER_ORDER
    THEN InvalidPurchaseException(
             replace(messages["max_allowed_tickets_err"], "{allowedTickets}",
                     toString(MAX_TICKETS_PER_ORDER)))
    ELSE NoError

\* const { ADULT, CHILD, INFANT } = ticketRequests; X ?? 0
CountOf(summary, t) == IF t \in DOMAIN summary THEN summary[t] ELSE 0

\* Mutant of #verifyTicketRules: the infant capacity check is missing.
verifyTicketRules_noInfantCheck(summary) ==
    LET adultCount  == CountOf(summary, "ADULT")
        childCount  == CountOf(summary, "CHILD")
        infantCount == CountOf(summary, "INFANT") IN
    IF adultCount = 0 /\ (childCount > 0 \/ infantCount > 0)
    THEN InvalidPurchaseException(messages["error_adult_required"])
    ELSE NoError

\* Mutant of #verifyTicketRules: children count as accompanying adults.
verifyTicketRules_childrenAccompany(summary) ==
    LET adultCount  == CountOf(summary, "ADULT")
        childCount  == CountOf(summary, "CHILD")
        infantCount == CountOf(summary, "INFANT") IN
    IF infantCount > 0 /\ adultCount = 0 /\ childCount = 0
    THEN InvalidPurchaseException(messages["error_adult_required"])
    ELSE IF infantCount > adultCount + childCount
    THEN InvalidPurchaseException(messages["error_too_many_infants"])
    ELSE NoError

\* #verifyTicketRules
verifyTicketRules(summary) ==
    LET adultCount  == CountOf(summary, "ADULT")
        childCount  == CountOf(summary, "CHILD")
        infantCount == CountOf(summary, "INFANT") IN
    IF adultCount = 0 /\ (childCount > 0 \/ infantCount > 0)
    THEN InvalidPurchaseException(messages["error_adult_required"])
    ELSE IF infantCount > adultCount
    THEN InvalidPurchaseException(messages["error_too_many_infants"])
    ELSE NoError

\* Mutant of #verifyTicketOrder: the two checks run in the other order.
verifyTicketOrder_rulesFirst(summary) ==
    IF verifyTicketRules(summary).kind # "none"
    THEN verifyTicketRules(summary)
    ELSE checkTicketCount(summary)

\* #verifyTicketOrder
verifyTicketOrder(summary) ==
    IF checkTicketCount(summary).kind # "none"
    THEN checkTicketCount(summary)
    ELSE verifyTicketRules(summary)

\* Mutant of the validation phase: #verifyTicketOrder is not called.
validationPhase_noOrderCheck(acct, requests, tid) ==
    LET structural == validatePurchaseRequest(acct, requests, tid) IN
    IF structural.kind # "none" THEN structural
    ELSE [NoError EXCEPT !.log = <<LogEntry("info", tid, "ticket_summary")>>]

\* purchaseTickets, lines 168-178: what the validation phase throws, and logs
validationPhase(acct, requests, tid) ==
    LET structural == validatePurchaseRequest(acct, requests, tid) IN
    IF structural.kind # "none" THEN structural
    ELSE LET summary == ticketSummaryOf(requests)
             order == verifyTicketOrder(summary) IN
         [order EXCEPT !.log = <<LogEntry("info", tid, "ticket_summary")>>]

---------------------------------------------------------------------------
\* State

NoId == ""

NoResult == [kind |-> "none", message |-> <<>>, transactionId |-> NoId]

Thrown(err) == [kind |-> err.kind, message |-> err.message, transactionId |-> NoId]

Call(op, acct, amount, outcome) ==
    [op |-> op, accountId |-> acct, amount |-> amount, outcome |-> outcome]

\* The callers that may hold a generateId call in flight.
Callers == {"c1", "c2"}

\* A caller with no generateId call in flight.
NotInFlight == [pc |-> "idle", timestamp |-> -1]

Init ==
    /\ pc = "idle"
    /\ accountId = 0
    /\ ticketTypeRequests = <<>>
    /\ transactionId = NoId
    /\ calls = <<>>
    /\ result = NoResult
    /\ log = <<>>
    /\ gen = [lastTimestamp |-> -1, sequence |-> 0]
    /\ now = 0
    /\ nCalls = 0
    /\ issued = <<>>
    /\ threads = [c \in Callers |-> NotInFlight]
    /\ rolledBack = FALSE
    /\ instances = <<>>

\* The clock advances between calls (it is read only at the start of a call).
Tick ==
    /\ pc = "idle"
    /\ now < MaxClock
    /\ now' = now + 1
    /\ UNCHANGED <<pc, accountId, ticketTypeRequests, transactionId, calls,
                   result, log, gen, nCalls, issued, threads, rolledBack, instances>>

\* purchaseTickets(accountId, ...ticketTypeRequests), lines 164-166
PurchaseTickets ==
    /\ pc = "idle"
    /\ nCalls < MaxCalls
    /\ \E acct \in AccountIds, requests \in Requests, o \in generateId(gen, now) :
          /\ accountId' = acct
          /\ ticketTypeRequests' = requests
          /\ gen' = o.gen
          /\ now' = o.now
          /\ transactionId' = o.id
          /\ issued' = Append(issued, o.value)
          /\ log' = <<LogEntry("info", o.id, "account_id")>>
    /\ pc' = "Created"
    /\ nCalls' = nCalls + 1
    /\ UNCHANGED <<calls, result, threads, rolledBack, instances>>

\* lines 168-178: #validatePurchaseRequest, the summary, #verifyTicketOrder
Validate ==
    /\ pc = "Created"
    /\ LET err == validationPhase(accountId, ticketTypeRequests, transactionId) IN
          /\ log' = log \o err.log
          /\ IF err.kind = "none"
             THEN pc' = "Validated" /\ UNCHANGED result
             ELSE pc' = "Failed" /\ result' = Thrown(err)
    /\ UNCHANGED <<accountId, ticketTypeRequests, transactionId, calls, gen,
                   now, nCalls, issued, threads, rolledBack, instances>>

\* lines 188-200: catch (seatError)
seatCatch(seatError, tid) ==
    IF seatError = "TypeError"
    THEN Logged(InvalidPurchaseException(messages["seat_reservation_error"]),
                LogEntry("error", tid, "seat_reservation_error"))
    ELSE IF seatError \in Nullish
    THEN messageReadFailure(seatError)
    ELSE Logged(InvalidPurchaseException(messages["seat_reservation_failed"]),
                LogEntry("warn", tid, "seat_reservation_error"))

\* Mutant of the payment catch: a TypeError of the collaborator gets a shape
\* of its own.
paymentCatch_distinct(paymentError, tid) ==
    IF paymentError = "TypeError"
    THEN Logged(TypeError(messages["payment_error"]),
                LogEntry("error", tid, "payment_error"))
    ELSE Logged(InvalidPurchaseException(messages["payment_error"]),
                LogEntry("warn", tid, "payment_error"))

\* lines 214-227: catch (paymentError)
paymentCatch(paymentError, tid) ==
    IF paymentError = "TypeError"
    THEN Logged(InvalidPurchaseException(messages["payment_error"]),
                LogEntry("error", tid, "payment_error"))
    ELSE IF paymentError \in Nullish
    THEN messageReadFailure(paymentError)
    ELSE Logged(InvalidPurchaseException(messages["payment_error"]),
                LogEntry("warn", tid, "payment_error"))

\* purchaseTickets, lines 168-227, as a function of its arguments and of what
\* the two collaborators do: what the caller receives and the calls made.
OutcomeOf(acct, requests, seat, payment) ==
    LET invalid == validationPhase(acct, requests, NoId)
        reserve == Call("reserveSeat", acct, calculateTotalSeats(requests), seat)
        pay     == Call("makePayment", acct, calculateTotalCost(requests), payment) IN
    IF invalid.kind # "none"
    THEN [kind |-> invalid.kind, message |-> invalid.message, calls |-> <<>>]
    ELSE IF seat # "returned"
    THEN [kind    |-> seatCatch(seat, NoId).kind,
          message |-> seatCatch(seat, NoId).message,
          calls   |-> <<reserve>>]
    ELSE IF payment # "returned"
    THEN [kind    |-> paymentCatch(payment, NoId).kind,
          message |-> paymentCatch(payment, NoId).message,
          calls   |-> <<reserve, pay>>]
    ELSE [kind    |-> "Confirmation",
          message |-> messages["purchase_successful"],
          calls   |-> <<reserve, pay>>]

\* Mutant of the seat reservation step: a thrown seatError is swallowed.
ReserveSeat_swallow ==
    /\ pc = "Validated"
    /\ \E outcome \in CollaboratorBehaviours :
         LET totalSeats == calculateTotalSeats(ticketTypeRequests) IN
          /\ calls' = Append(calls, Call("reserveSeat", accountId, totalSeats, outcome))
          /\ pc' = "SeatsReserved"
          /\ log' = Append(log, LogEntry("info", transactionId,
                                         "seat_reservation_successful"))
          /\ UNCHANGED result
    /\ UNCHANGED <<accountId, ticketTypeRequests, transactionId, gen, now, nCalls, issued, threads, rolledBack, instances>>

\* lines 181-200: the seat reservation try/catch
ReserveSeat ==
    /\ pc = "Validated"
    /\ \E outcome \in CollaboratorBehaviours :
         LET totalSeats == calculateTotalSeats(ticketTypeRequests) IN
          /\ calls' = Append(calls, Call("reserveSeat", accountId, totalSeats, outcome))
          /\ IF outcome = "returned"
             THEN /\ pc' = "SeatsReserved"
                  /\ log' = Append(log, LogEntry("info", transactionId,
                                                 "seat_reservation_successful"))
                  /\ UNCHANGED result
             ELSE /\ pc' = "Failed"
                  /\ log' = log \o seatCatch(outcome, transactionId).log
                  /\ result' = Thrown(seatCatch(outcome, transactionId))
    /\ UNCHANGED <<accountId, ticketTypeRequests, transactionId, gen, now, nCalls, issued, threads, rolledBack, instances>>

\* Mutant of the payment step: a failed payment is retried once.
MakePayment_retry ==
    /\ pc = "SeatsReserved"
    /\ \E outcome \in CollaboratorBehaviours :
         LET totalCost == calculateTotalCost(ticketTypeRequests) IN
          /\ calls' = Append(calls, Call("makePayment", accountId, totalCost, outcome))
          /\ IF outcome = "returned"
             THEN /\ pc' = "Paid"
                  /\ log' = Append(log, LogEntry("info", transactionId,
                                                 "payment_successful"))
                  /\ UNCHANGED result
             ELSE IF Len(calls) < 2
             THEN /\ pc' = "SeatsReserved"
                  /\ log' = log \o paymentCatch(outcome, transactionId).log
                  /\ UNCHANGED result
             ELSE /\ pc' = "Failed"
                  /\ log' = log \o paymentCatch(outcome, transactionId).log
                  /\ result' = Thrown(paymentCatch(outcome, transactionId))
    /\ UNCHANGED <<accountId, ticketTypeRequests, transactionId, gen, now, nCalls, issued, threads, rolledBack, instances>>

\* lines 203-207 and 214-227: the payment try/catch
MakePayment ==
    /\ pc = "SeatsReserved"
    /\ \E outcome \in CollaboratorBehaviours :
         LET totalCost == calculateTotalCost(ticketTypeRequests) IN
          /\ calls' = Append(calls, Call("makePayment", accountId, totalCost, outcome))
          /\ IF outcome = "returned"
             THEN /\ pc' = "Paid"
                  /\ log' = Append(log, LogEntry("info", transactionId,
                                                 "payment_successful"))
                  /\ UNCHANGED result
             ELSE /\ pc' = "Failed"
                  /\ log' = log \o paymentCatch(outcome, transactionId).log
                  /\ result' = Thrown(paymentCatch(outcome, transactionId))
    /\ UNCHANGED <<accountId, ticketTypeRequests, transactionId, gen, now, nCalls, issued, threads, rolledBack, instances>>

\* Mutant of the return: the id comes from a second generateId call.
Confirm_newId ==
    /\ pc = "Paid"
    /\ pc' = "Confirmed"
    /\ result' = [kind |-> "Confirmation",
                  message |-> messages["purchase_successful"],
                  transactionId |-> composeId(gen.lastTimestamp, gen.sequence + 1)]
    /\ UNCHANGED <<accountId, ticketTypeRequests, transactionId, calls, log,
                   gen, now, nCalls, issued, threads, rolledBack, instances>>

\* lines 210-213: return { message, transactionId }
Confirm ==
    /\ pc = "Paid"
    /\ pc' = "Confirmed"
    /\ result' = [kind |-> "Confirmation",
                  message |-> messages["purchase_successful"],
                  transactionId |-> transactionId]
    /\ UNCHANGED <<accountId, ticketTypeRequests, transactionId, calls, log,
                   gen, now, nCalls, issued, threads, rolledBack, instances>>

\* Mutant of the end of a call: the record of collaborator calls is kept for
\* the next purchase.
Return_keepCalls ==
    /\ pc \in {"Confirmed", "Failed"}
    /\ pc' = "idle"
    /\ accountId' = 0
    /\ ticketTypeRequests' = <<>>
    /\ transactionId' = NoId
    /\ result' = NoResult
    /\ log' = <<>>
    /\ UNCHANGED <<calls, gen, now, nCalls, issued, threads, rolledBack, instances>>

\* The call has returned or thrown; its request-scoped values are discarded.
Return ==
    /\ pc \in {"Confirmed", "Failed"}
    /\ pc' = "idle"
    /\ accountId' = 0
    /\ ticketTypeRequests' = <<>>
    /\ transactionId' = NoId
    /\ calls' = <<>>
    /\ result' = NoResult
    /\ log' = <<>>
    /\ UNCHANGED <<gen, now, nCalls, issued, threads, rolledBack, instances>>

Next ==
    \/ Tick
    \/ PurchaseTickets
    \/ Validate
    \/ ReserveSeat
    \/ MakePayment
    \/ Confirm
    \/ Return

Spec == Init /\ [][Next]_vars

---------------------------------------------------------------------------
\* The generator alone: serialized generateId calls on one instance.

\* The history keeps the first MaxRecorded - 1 returned ids and the latest.
Record(history, value) ==
    IF Len(history) < MaxRecorded
    THEN Append(history, value)
    ELSE [history EXCEPT ![MaxRecorded] = value]

\* generateId(), lines 15-34, called directly; transactionId holds what the
\* latest call returned.
GenerateId ==
    /\ pc = "idle"
    /\ \E o \in generateId(gen, now) :
          /\ gen' = o.gen
          /\ now' = o.now
          /\ transactionId' = o.id
          /\ issued' = Record(issued, o.value)
    /\ UNCHANGED <<pc, accountId, ticketTypeRequests, calls, result, log,
                   nCalls, threads, rolledBack, instances>>

NextGen ==
    \/ Tick
    \/ GenerateId

SpecGen == Init /\ [][NextGen]_vars

\* The same with a wall clock that can be set back between calls.
ClockRollback ==
    /\ pc = "idle"
    /\ now > 0
    /\ now' = now - 1
    /\ rolledBack' = TRUE
    /\ UNCHANGED <<pc, accountId, ticketTypeRequests, transactionId, calls,
                   result, log, gen, nCalls, issued, threads, instances>>

NextRollback ==
    \/ Tick
    \/ ClockRollback
    \/ GenerateId

SpecRollback == Init /\ [][NextRollback]_vars

---------------------------------------------------------------------------
\* The service with the validation written out inside purchaseTickets
\* (part_002).  Its private helpers are transcribed from that file; the
\* summary reduction and #calculateTotalTickets are the operators above.

\* #calculateTotalCost, part_002 lines 15-21
RECURSIVE Inlined_calculateTotalCost(_)
Inlined_calculateTotalCost(ticketRequests) ==
    IF ticketRequests = <<>> THEN 0
    ELSE LET n == Len(ticketRequests)
             ticketType == ticketRequests[n].type
             noOfTickets == ticketRequests[n].noOfTickets IN
         Inlined_calculateTotalCost(SubSeq(ticketRequests, 1, n - 1))
           + (IF ticketType \in DOMAIN ticketCost THEN ticketCost[ticketType] ELSE 0)
               * noOfTickets

\* #calculateTotalSeats, part_002 lines 23-29
RECURSIVE Inlined_calculateTotalSeats(_)
Inlined_calculateTotalSeats(ticketRequests) ==
    IF ticketRequests = <<>> THEN 0
    ELSE LET n == Len(ticketRequests) IN
         Inlined_calculateTotalSeats(SubSeq(ticketRequests, 1, n - 1))
           + (IF ticketRequests[n].type # "INFANT"
              THEN ticketRequests[n].noOfTickets ELSE 0)

\* #checkTicketCount, part_002 lines 41-53
Inlined_checkTicketCount(ticketRequests) ==
    LET totalTickets == calculateTotalTickets(ticketRequests) IN
    IF totalTickets <= 0
    THEN InvalidPurchaseException(messages["min_number_tickets_err"])
    ELSE IF totalTickets > MAX_TICKETS_PER_ORDER
    THEN InvalidPurchaseException(
             replace(messages["max_allowed_tickets_err"], "{allowedTickets}",
                     toString(MAX_TICKETS_PER_ORDER)))
    ELSE NoError

\* #verifyTicketRules, part_002 lines 74-88
Inlined_verifyTicketRules(ticketRequests) ==
    LET adultCount  == CountOf(ticketRequests, "ADULT")
        childCount  == CountOf(ticketRequests, "CHILD")
        infantCount == CountOf(ticketRequests, "INFANT") IN
    IF adultCount = 0 /\ (childCount > 0 \/ infantCount > 0)
    THEN InvalidPurchaseException(messages["error_adult_required"])
    ELSE IF infantCount > adultCount
    THEN InvalidPurchaseException(messages["error_too_many_infants"])
    ELSE NoError

\* #verifyTicketOrder, part_002 lines 94-97
Inlined_verifyTicketOrder(ticketRequests) ==
    IF Inlined_checkTicketCount(ticketRequests).kind # "none"
    THEN Inlined_checkTicketCount(ticketRequests)
    ELSE Inlined_verifyTicketRules(ticketRequests)

\* Mutant of the inlined validation: the duplicate-category check is missing.
inlinedValidation_noDuplicateCheck(acct, requests, tid) ==
    IF ~NumberIsInteger(acct) \/ acct <= 0
    THEN Logged(TypeError(messages["invalid_request"]),
                LogEntry("error", tid, "invalid_account_id"))
    ELSE IF Len(requests) = 0
            \/ ~(\A i \in 1..Len(requests) : instanceofTicketTypeRequest(requests[i]))
    THEN Logged(TypeError(messages["invalid_request"]),
                LogEntry("error", tid,
                         "invalid_ticket_type_request: min_number_tickets_err"))
    ELSE LET ticketSummary == ticketSummaryOf(requests)
             order == Inlined_verifyTicketOrder(ticketSummary) IN
         [order EXCEPT !.log = <<LogEntry("info", tid, "ticket_summary")>>]

\* purchaseTickets, part_002 lines 105-136: the checks up to
\* #verifyTicketOrder, what they throw and what they log
inlinedValidation(acct, requests, tid) ==
    IF ~NumberIsInteger(acct) \/ acct <= 0
    THEN Logged(TypeError(messages["invalid_request"]),
                LogEntry("error", tid, "invalid_account_id"))
    ELSE IF Len(requests) = 0
            \/ ~(\A i \in 1..Len(requests) : instanceofTicketTypeRequest(requests[i]))
    THEN Logged(TypeError(messages["invalid_request"]),
                LogEntry("error", tid,
                         "invalid_ticket_type_request: min_number_tickets_err"))
    ELSE IF Cardinality({requests[i].type : i \in 1..Len(requests)}) # Len(requests)
    THEN Logged(InvalidPurchaseException(messages["duplicate_ticket_type_error"]),
                LogEntry("error", tid, "duplicate_ticket_types"))
    ELSE LET ticketSummary == ticketSummaryOf(requests)
             order == Inlined_verifyTicketOrder(ticketSummary) IN
         [order EXCEPT !.log = <<LogEntry("info", tid, "ticket_summary")>>]

\* part_002 lines 149-158: catch (seatError)
inlinedSeatCatch(seatError, tid) ==
    IF seatError = "TypeError"
    THEN Logged(InvalidPurchaseException(messages["seat_reservation_error"]),
                LogEntry("error", tid, "seat_reservation_error"))
    ELSE IF seatError \in Nullish
    THEN messageReadFailure(seatError)
    ELSE Logged(InvalidPurchaseException(messages["seat_reservation_failed"]),
                LogEntry("warn", tid, "seat_reservation_error"))

\* part_002 lines 173-185: catch (paymentError)
inlinedPaymentCatch(paymentError, tid) ==
    IF paymentError = "TypeError"
    THEN Logged(InvalidPurchaseException(messages["payment_error"]),
                LogEntry("error", tid, "payment_error"))
    ELSE IF paymentError \in Nullish
    THEN messageReadFailure(paymentError)
    ELSE Logged(InvalidPurchaseException(messages["payment_error"]),
                LogEntry("warn", tid, "payment_error"))

\* purchaseTickets(accountId, ...ticketTypeRequests), part_002 lines 102-104,
\* on a new service
InlinedPurchaseTickets ==
    /\ pc = "idle"
    /\ nCalls = 0
    /\ \E acct \in AccountIds, requests \in Requests, o \in generateId(gen, now) :
          /\ accountId' = acct
          /\ ticketTypeRequests' = requests
          /\ gen' = o.gen
          /\ now' = o.now
          /\ transactionId' = o.id
          /\ issued' = Append(issued, o.value)
          /\ log' = <<LogEntry("info", o.id, "account_id")>>
    /\ pc' = "Created"
    /\ nCalls' = nCalls + 1
    /\ UNCHANGED <<calls, result, threads, rolledBack, instances>>

\* part_002 lines 105-136
InlinedValidate ==
    /\ pc = "Created"
    /\ LET err == inlinedValidation(accountId, ticketTypeRequests, transactionId) IN
          /\ log' = log \o err.log
          /\ IF err.kind = "none"
             THEN pc' = "Validated" /\ UNCHANGED result
             ELSE pc' = "Failed" /\ result' = Thrown(err)
    /\ UNCHANGED <<accountId, ticketTypeRequests, transactionId, calls, gen,
                   now, nCalls, issued, threads, rolledBack, instances>>

\* part_002 lines 139-158: the seat reservation and its catch
InlinedReserveSeat ==
    /\ pc = "Validated"
    /\ \E outcome \in CollaboratorBehaviours :
         LET totalSeats == Inlined_calculateTotalSeats(ticketTypeRequests)
             seen == Append(log, LogEntry("info", transactionId, "total_seats")) IN
          /\ calls' = Append(calls, Call("reserveSeat", accountId, totalSeats, outcome))
          /\ IF outcome = "returned"
             THEN /\ pc' = "SeatsReserved"
                  /\ log' = Append(seen, LogEntry("info", transactionId,
                                                  "seat_reservation_successful"))
                  /\ UNCHANGED result
             ELSE /\ pc' = "Failed"
                  /\ log' = seen \o inlinedSeatCatch(outcome, transactionId).log
                  /\ result' = Thrown(inlinedSeatCatch(outcome, transactionId))
    /\ UNCHANGED <<accountId, ticketTypeRequests, transactionId, gen, now,
                   nCalls, issued, threads, rolledBack, instances>>

\* part_002 lines 161-165 and 173-185: the payment and its catch
InlinedMakePayment ==
    /\ pc = "SeatsReserved"
    /\ \E outcome \in CollaboratorBehaviours :
         LET totalCost == Inlined_calculateTotalCost(ticketTypeRequests) IN
          /\ calls' = Append(calls, Call("makePayment", accountId, totalCost, outcome))
          /\ IF outcome = "returned"
             THEN /\ pc' = "Paid"
                  /\ log' = Append(log, LogEntry("info", transactionId,
                                                 "payment_successful"))
                  /\ UNCHANGED result
             ELSE /\ pc' = "Failed"
                  /\ log' = log \o inlinedPaymentCatch(outcome, transactionId).log
                  /\ result' = Thrown(inlinedPaymentCatch(outcome, transactionId))
    /\ UNCHANGED <<accountId, ticketTypeRequests, transactionId, gen, now,
                   nCalls, issued, threads, rolledBack, instances>>

\* part_002 lines 169-172: return { message, transactionId }
InlinedConfirm ==
    /\ pc = "Paid"
    /\ pc' = "Confirmed"
    /\ result' = [kind |-> "Confirmation",
                  message |-> messages["purchase_successful"],
                  transactionId |-> transactionId]
    /\ UNCHANGED <<accountId, ticketTypeRequests, transactionId, calls, log,
                   gen, now, nCalls, issued, threads, rolledBack, instances>>

NextInlined ==
    \/ Tick
    \/ InlinedPurchaseTickets
    \/ InlinedValidate
    \/ InlinedReserveSeat
    \/ InlinedMakePayment
    \/ InlinedConfirm

SpecInlined == Init /\ [][NextInlined]_vars

---------------------------------------------------------------------------
\* Two SnowflakeIDGenerator instances constructed with machine ids of their
\* own, each reading a clock of its own.

Instances == {"a", "b"}

\* this.customEpoch, as an offset from itself: the origin that clock readings
\* and timestamps are measured from
customEpoch == 0

\* constructor, lines 4-9
SnowflakeIDGenerator(m) ==
    [machineId     |-> maskMachineId(m),
     customEpoch   |-> customEpoch,
     sequence      |-> 0,
     lastTimestamp |-> -1]

\* An instance as constructed with machine id m: its fields, the argument it
\* was constructed with and the values of the ids it has returned.
NewInstance(m) ==
    [constructedWith |-> m, generator |-> SnowflakeIDGenerator(m), ids |-> <<>>]

\* The same instance after 4096 generateId calls within millisecond 0; ids
\* keeps the latest value.
ExhaustedInstance(m) ==
    [constructedWith |-> m,
     generator |-> [SnowflakeIDGenerator(m) EXCEPT
                      !.sequence = SequenceModulus - 1, !.lastTimestamp = 0],
     ids |-> <<composeValueWith(maskMachineId(m), 0, SequenceModulus - 1)>>]

InitPair ==
    /\ pc = "idle"
    /\ accountId = 0
    /\ ticketTypeRequests = <<>>
    /\ transactionId = NoId
    /\ calls = <<>>
    /\ result = NoResult
    /\ log = <<>>
    /\ gen = [lastTimestamp |-> -1, sequence |-> 0]
    /\ now = 0
    /\ nCalls = 0
    /\ issued = <<>>
    /\ threads = [c \in Callers |-> NotInFlight]
    /\ rolledBack = FALSE
    /\ instances \in [Instances ->
                        {NewInstance(m) : m \in MachineIds}
                            \cup {ExhaustedInstance(m) : m \in MachineIds}]

\* generateId(), lines 15-34, on instance i, whatever its clock reads.
GenerateIdOn(i) ==
    /\ Len(instances[i].ids) < MaxInstanceCalls
    /\ \E clock \in 0..MaxClock :
          \E o \in generateId(instances[i].generator, clock) :
              instances' =
                  [instances EXCEPT
                     ![i].generator =
                         [@ EXCEPT !.sequence = o.gen.sequence,
                                   !.lastTimestamp = o.gen.lastTimestamp],
                     ![i].ids =
                         Append(@, composeValueWith(
                                       instances[i].generator.machineId,
                                       o.gen.lastTimestamp, o.gen.sequence))]
    /\ UNCHANGED <<pc, accountId, ticketTypeRequests, transactionId, calls,
                   result, log, gen, now, nCalls, issued, threads, rolledBack>>

NextPair == \E i \in Instances : GenerateIdOn(i)

SpecPair == InitPair /\ [][NextPair]_vars

---------------------------------------------------------------------------
\* generateId line by line, called by several callers on one instance.  A
\* call runs to completion before the next one begins; the wall clock moves
\* while a call runs.

InFlight(c) == threads[c].pc # "idle"

\* The local variables and shared fields untouched by a statement.
ServiceUnchanged ==
    UNCHANGED <<pc, accountId, ticketTypeRequests, calls, result, log, now>>

\* a caller enters generateId: the method is synchronous, so the call of
\* another caller begins only when no call is in flight
Enter(c) ==
    /\ \A d \in Callers : ~InFlight(d)
    /\ nCalls < MaxGenCalls
    /\ nCalls' = nCalls + 1
    /\ threads' = [threads EXCEPT ![c].pc = "line16"]
    /\ ServiceUnchanged
    /\ UNCHANGED <<transactionId, gen, issued, rolledBack, instances>>

\* line 16: let timestamp = this._currentTimestamp()
ReadClock(c) ==
    /\ threads[c].pc = "line16"
    /\ threads' = [threads EXCEPT ![c] = [pc |-> "line18", timestamp |-> now]]
    /\ ServiceUnchanged
    /\ UNCHANGED <<transactionId, gen, nCalls, issued, rolledBack, instances>>

\* line 18: if (timestamp === this.lastTimestamp)
CompareTimestamp(c) ==
    /\ threads[c].pc = "line18"
    /\ threads' = [threads EXCEPT ![c].pc =
                      IF threads[c].timestamp = gen.lastTimestamp
                      THEN "line19" ELSE "line26"]
    /\ ServiceUnchanged
    /\ UNCHANGED <<transactionId, gen, nCalls, issued, rolledBack, instances>>

\* Mutant of line 19: the sequence is left as it is.
IncrementSequence_skip(c) ==
    /\ threads[c].pc = "line19"
    /\ threads' = [threads EXCEPT ![c].pc = "line20"]
    /\ ServiceUnchanged
    /\ UNCHANGED <<transactionId, gen, nCalls, issued, rolledBack, instances>>

\* line 19: this.sequence = (this.sequence + 1) & 0xFFF
IncrementSequence(c) ==
    /\ threads[c].pc = "line19"
    /\ gen' = [gen EXCEPT !.sequence = (gen.sequence + 1) % SequenceModulus]
    /\ threads' = [threads EXCEPT ![c].pc = "line20"]
    /\ ServiceUnchanged
    /\ UNCHANGED <<transactionId, nCalls, issued, rolledBack, instances>>

\* line 20: if (this.sequence === 0)
CheckWrap(c) ==
    /\ threads[c].pc = "line20"
    /\ threads' = [threads EXCEPT ![c].pc =
                      IF gen.sequence = 0 THEN "line21" ELSE "line29"]
    /\ ServiceUnchanged
    /\ UNCHANGED <<transactionId, gen, nCalls, issued, rolledBack, instances>>

\* Mutant of lines 21-23: the loop does not read the clock again.
WaitNextMillisecond_noReread(c) ==
    /\ threads[c].pc = "line21"
    /\ threads' = IF threads[c].timestamp <= gen.lastTimestamp
                  THEN threads
                  ELSE [threads EXCEPT ![c].pc = "line29"]
    /\ ServiceUnchanged
    /\ UNCHANGED <<transactionId, gen, nCalls, issued, rolledBack, instances>>

\* Mutant of lines 21-23: the loop ends as soon as the clock equals
\* lastTimestamp.
WaitNextMillisecond_strict(c) ==
    /\ threads[c].pc = "line21"
    /\ threads' = IF threads[c].timestamp < gen.lastTimestamp
                  THEN [threads EXCEPT ![c].timestamp = now]
                  ELSE [threads EXCEPT ![c].pc = "line29"]
    /\ ServiceUnchanged
    /\ UNCHANGED <<transactionId, gen, nCalls, issued, rolledBack, instances>>

\* lines 21-23: while (timestamp <= this.lastTimestamp)
\*                  timestamp = this._currentTimestamp()
WaitNextMillisecond(c) ==
    /\ threads[c].pc = "line21"
    /\ threads' = IF threads[c].timestamp <= gen.lastTimestamp
                  THEN [threads EXCEPT ![c].timestamp = now]
                  ELSE [threads EXCEPT ![c].pc = "line29"]
    /\ ServiceUnchanged
    /\ UNCHANGED <<transactionId, gen, nCalls, issued, rolledBack, instances>>

\* line 26: this.sequence = 0
ResetSequence(c) ==
    /\ threads[c].pc = "line26"
    /\ gen' = [gen EXCEPT !.sequence = 0]
    /\ threads' = [threads EXCEPT ![c].pc = "line29"]
    /\ ServiceUnchanged
    /\ UNCHANGED <<transactionId, nCalls, issued, rolledBack, instances>>

\* line 29: this.lastTimestamp = timestamp
StoreTimestamp(c) ==
    /\ threads[c].pc = "line29"
    /\ gen' = [gen EXCEPT !.lastTimestamp = threads[c].timestamp]
    /\ threads' = [threads EXCEPT ![c].pc = "line31"]
    /\ ServiceUnchanged
    /\ UNCHANGED <<transactionId, nCalls, issued, rolledBack, instances>>

\* lines 31-33: return (timestamp << 22 | machineId << 12 | this.sequence)
ReturnId(c) ==
    /\ threads[c].pc = "line31"
    /\ transactionId' = composeId(threads[c].timestamp, gen.sequence)
    /\ issued' = Append(issued, composeValue(threads[c].timestamp, gen.sequence))
    /\ threads' = [threads EXCEPT ![c] = NotInFlight]
    /\ ServiceUnchanged
    /\ UNCHANGED <<gen, nCalls, rolledBack, instances>>

\* The clock moves on while calls are in flight.
ClockTick ==
    /\ now < MaxClock
    /\ now' = now + 1
    /\ UNCHANGED <<pc, accountId, ticketTypeRequests, transactionId, calls,
                   result, log, gen, nCalls, issued, threads, rolledBack, instances>>

\* The instance is new, or it has issued the 4096 ids of millisecond 0 in
\* serialized calls (the history then holds the first and the last of them).
InitConc ==
    /\ pc = "idle"
    /\ accountId = 0
    /\ ticketTypeRequests = <<>>
    /\ transactionId = NoId
    /\ calls = <<>>
    /\ result = NoResult
    /\ log = <<>>
    /\ now = 0
    /\ nCalls = 0
    /\ threads = [c \in Callers |-> NotInFlight]
    /\ rolledBack = FALSE
    /\ instances = <<>>
    /\ \/ /\ gen = [lastTimestamp |-> -1, sequence |-> 0]
          /\ issued = <<>>
       \/ /\ gen = [lastTimestamp |-> 0, sequence |-> SequenceModulus - 1]
          /\ issued = <<composeValue(0, 0), composeValue(0, SequenceModulus - 1)>>

NextConc ==
    \/ ClockTick
    \/ \E c \in Callers :
          \/ Enter(c)
          \/ ReadClock(c)
          \/ CompareTimestamp(c)
          \/ IncrementSequence(c)
          \/ CheckWrap(c)
          \/ WaitNextMillisecond(c)
          \/ ResetSequence(c)
          \/ StoreTimestamp(c)
          \/ ReturnId(c)

SpecConc == InitConc /\ [][NextConc]_vars

\* The same callers with a wall clock that can also be set back, between
\* calls or while a call runs.
NextConcRollback ==
    \/ ClockTick
    \/ ClockRollback
    \/ \E c \in Callers :
          \/ Enter(c)
          \/ ReadClock(c)
          \/ CompareTimestamp(c)
          \/ IncrementSequence(c)
          \/ CheckWrap(c)
          \/ WaitNextMillisecond(c)
          \/ ResetSequence(c)
          \/ StoreTimestamp(c)
          \/ ReturnId(c)

SpecConcRollback == InitConc /\ [][NextConcRollback]_vars

\* The statements of a call in flight: the caller's thread runs the call to
\* its end, and the wall clock keeps moving (up to the horizon MaxClock).
StatementOf(c) ==
    \/ ReadClock(c)
    \/ CompareTimestamp(c)
    \/ IncrementSequence(c)
    \/ CheckWrap(c)
    \/ WaitNextMillisecond(c)
    \/ ResetSequence(c)
    \/ StoreTimestamp(c)
    \/ ReturnId(c)

FairSpecConc ==
    /\ InitConc
    /\ [][NextConc]_vars
    /\ WF_vars(ClockTick)
    /\ \A c \in Callers : WF_vars(StatementOf(c))

---------------------------------------------------------------------------
\* pairtest/TicketService.js: the service with an injected validator
\* (TicketValidator) and the payment try/catch nested in the seat try/catch.

\* TicketValidator.#checkTicketCount
TicketValidator_checkTicketCount(ticketRequests) ==
    LET totalTickets == SumOver(ticketRequests, DOMAIN ticketRequests) IN
    IF totalTickets <= 0
    THEN InvalidPurchaseException(messages["min_number_tickets_err"])
    ELSE IF totalTickets > MAX_TICKETS_PER_ORDER
    THEN InvalidPurchaseException(
             replace(messages["max_allowed_tickets_err"], "{allowedTickets}",
                     toString(MAX_TICKETS_PER_ORDER)))
    ELSE NoError

\* TicketValidator.#verifyTicketRules
TicketValidator_verifyTicketRules(ticketRequests) ==
    LET adultCount  == CountOf(ticketRequests, "ADULT")
        childCount  == CountOf(ticketRequests, "CHILD")
        infantCount == CountOf(ticketRequests, "INFANT") IN
    IF infantCount > 0 /\ adultCount = 0 /\ childCount = 0
    THEN InvalidPurchaseException(messages["error_infant_only_not_allowed"])
    ELSE IF infantCount > adultCount + childCount
    THEN InvalidPurchaseException(messages["error_infant_exceeds_allowed"])
    ELSE NoError

\* TicketValidator.verifyTicketOrder
TicketValidator_verifyTicketOrder(ticketRequests) ==
    IF TicketValidator_checkTicketCount(ticketRequests).kind # "none"
    THEN TicketValidator_checkTicketCount(ticketRequests)
    ELSE TicketValidator_verifyTicketRules(ticketRequests)

\* new InvalidPurchaseException(errorMsg) with an error object as the message:
\* the message is the object's string form, its name and ": " before its message
StringOfError(err) == <<"errorMsg.name", ": ">> \o err.message

\* purchaseTickets, lines 44-63: what the checks before the seat reservation
\* throw, and log
injectedValidation(acct, requests, tid) ==
    IF acct <= 0
    THEN Logged(TypeError(messages["invalid_request"]),
                LogEntry("error", tid, "invalid_account_id"))
    ELSE IF \E i \in 1..Len(requests) : ~instanceofTicketTypeRequest(requests[i])
    THEN Logged(TypeError(messages["invalid_request"]),
                LogEntry("error", tid, "invalid_ticket_type_request"))
    ELSE LET errorMsg == TicketValidator_verifyTicketOrder(ticketSummaryOf(requests)) IN
         IF errorMsg.kind # "none"
         THEN InvalidPurchaseException(StringOfError(errorMsg))
         ELSE NoError

\* lines 84-96: catch (paymentError), the inner catch
injectedPaymentCatch(paymentError, tid) ==
    IF paymentError \in Nullish
    THEN messageReadFailure(paymentError)
    ELSE Logged(InvalidPurchaseException(messages["payment_error"]),
                LogEntry("error", tid, "payment_error"))

\* lines 97-100: catch (seatError), the outer catch
injectedSeatCatch(seatError, tid) ==
    IF seatError \in Nullish
    THEN messageReadFailure(seatError)
    ELSE Logged(InvalidPurchaseException(messages["seat_reservation_error"]),
                LogEntry("error", tid, "seat_reservation_error"))

\* purchaseTickets(accountId, ...ticketTypeRequests), lines 41-43, on a new
\* service
InjectedPurchaseTickets ==
    /\ pc = "idle"
    /\ nCalls = 0
    /\ \E acct \in AccountIds, requests \in Requests, o \in generateId(gen, now) :
          /\ accountId' = acct
          /\ ticketTypeRequests' = requests
          /\ gen' = o.gen
          /\ now' = o.now
          /\ transactionId' = o.id
          /\ issued' = Append(issued, o.value)
          /\ log' = <<LogEntry("info", o.id, "account_id")>>
    /\ pc' = "Created"
    /\ nCalls' = nCalls + 1
    /\ UNCHANGED <<calls, result, threads, rolledBack, instances>>

\* lines 44-63
InjectedValidate ==
    /\ pc = "Created"
    /\ LET err == injectedValidation(accountId, ticketTypeRequests, transactionId) IN
          /\ log' = log \o err.log
          /\ IF err.kind = "none"
             THEN pc' = "Validated" /\ UNCHANGED result
             ELSE pc' = "Failed" /\ result' = Thrown(err)
    /\ UNCHANGED <<accountId, ticketTypeRequests, transactionId, calls, gen,
                   now, nCalls, issued, threads, rolledBack, instances>>

\* lines 65-71 and 97-100: the seat reservation inside the outer try
InjectedReserveSeat ==
    /\ pc = "Validated"
    /\ \E outcome \in CollaboratorBehaviours :
         LET totalSeats == calculateTotalSeats(ticketTypeRequests)
             seen == Append(log, LogEntry("info", transactionId, "total_seats")) IN
          /\ calls' = Append(calls, Call("reserveSeat", accountId, totalSeats, outcome))
          /\ IF outcome = "returned"
             THEN /\ pc' = "SeatsReserved"
                  /\ log' = Append(seen, LogEntry("info", transactionId,
                                                  "seat_reservation_successful"))
                  /\ UNCHANGED result
             ELSE /\ pc' = "Failed"
                  /\ log' = seen \o injectedSeatCatch(outcome, transactionId).log
                  /\ result' = Thrown(injectedSeatCatch(outcome, transactionId))
    /\ UNCHANGED <<accountId, ticketTypeRequests, transactionId, gen, now,
                   nCalls, issued, threads, rolledBack, instances>>

\* lines 73-77 and 84-100: the payment inside the inner try; what the inner
\* catch throws is thrown inside the outer try and caught by the outer catch
InjectedMakePayment ==
    /\ pc = "SeatsReserved"
    /\ \E outcome \in CollaboratorBehaviours :
         LET totalCost == calculateTotalCost(ticketTypeRequests)
             inner == injectedPaymentCatch(outcome, transactionId)
             outer == injectedSeatCatch(inner.kind, transactionId) IN
          /\ calls' = Append(calls, Call("makePayment", accountId, totalCost, outcome))
          /\ IF outcome = "returned"
             THEN /\ pc' = "Paid"
                  /\ log' = Append(log, LogEntry("info", transactionId,
                                                 "payment_successful"))
                  /\ UNCHANGED result
             ELSE /\ pc' = "Failed"
                  /\ log' = log \o inner.log \o outer.log
                  /\ result' = Thrown(outer)
    /\ UNCHANGED <<accountId, ticketTypeRequests, transactionId, gen, now,
                   nCalls, issued, threads, rolledBack, instances>>

\* lines 80-83: return { message: "Purchase successful", transactionId }
InjectedConfirm ==
    /\ pc = "Paid"
    /\ pc' = "Confirmed"
    /\ result' = [kind |-> "Confirmation",
                  message |-> <<"Purchase successful">>,
                  transactionId |-> transactionId]
    /\ UNCHANGED <<accountId, ticketTypeRequests, transactionId, calls, log,
                   gen, now, nCalls, issued, threads, rolledBack, instances>>

NextInjected ==
    \/ Tick
    \/ InjectedPurchaseTickets
    \/ InjectedValidate
    \/ InjectedReserveSeat
    \/ InjectedMakePayment
    \/ InjectedConfirm

SpecInjected == Init /\ [][NextInjected]_vars

---------------------------------------------------------------------------
\* The request of the current call, read against the business rules directly
\* from the line items (not through the ticket summary).

PositiveInteger(n) == n > 0 /\ n % 2 = 0

WellFormedItems(requests) ==
    /\ Len(requests) > 0
    /\ \A i \in 1..Len(requests) : requests[i].isTicketTypeRequest

StructurallyValid == PositiveInteger(accountId) /\ WellFormedItems(ticketTypeRequests)

HasDuplicateCategory ==
    \E i, j \in 1..Len(ticketTypeRequests) :
        i < j /\ ticketTypeRequests[i].type = ticketTypeRequests[j].type

RECURSIVE CountIn(_, _, _)
CountIn(requests, types, i) ==
    IF i = 0 THEN 0
    ELSE CountIn(requests, types, i - 1)
           + (IF requests[i].type \in types THEN requests[i].noOfTickets ELSE 0)

TotalCount == CountIn(ticketTypeRequests, ticketCategories, Len(ticketTypeRequests))

AdultTotal == CountIn(ticketTypeRequests, {"ADULT"}, Len(ticketTypeRequests))

ChildTotal == CountIn(ticketTypeRequests, {"CHILD"}, Len(ticketTypeRequests))

InfantTotal == CountIn(ticketTypeRequests, {"INFANT"}, Len(ticketTypeRequests))

\* The validation rules.  For counts that are not negative the adult rule reads
\* "a CHILD or INFANT ticket needs an ADULT ticket"; it is written so that it
\* is also what the service enforces when a count is negative.
RequestIsValid ==
    /\ StructurallyValid
    /\ ~HasDuplicateCategory
    /\ TotalCount >= 1 /\ TotalCount <= 25
    /\ (ChildTotal > 0 \/ InfantTotal > 0) => AdultTotal # 0
    /\ InfantTotal <= AdultTotal

\* The validation step of the current call has run.
ValidationDone == pc \notin {"idle", "Created"}

Threw(kind, key) ==
    /\ pc = "Failed"
    /\ result.kind = kind
    /\ result.message # <<>>
    /\ Head(result.message) = key

CallsTo(op) == {i \in 1..Len(calls) : calls[i].op = op}

ValidationMessageKeys ==
    {"invalid_request", "duplicate_ticket_type_error", "min_number_tickets_err",
     "max_allowed_tickets_err", "error_adult_required", "error_too_many_infants"}

FailedValidation ==
    /\ pc = "Failed"
    /\ result.message # <<>>
    /\ Head(result.message) \in ValidationMessageKeys

---------------------------------------------------------------------------
\* C1: makePayment is invoked only after reserveSeat has been invoked and has
\* returned without throwing in the same call; once reserveSeat has thrown,
\* makePayment is never invoked in that call.
C1_PaymentOnlyAfterReservation ==
    /\ \A i \in CallsTo("makePayment") :
          \E j \in CallsTo("reserveSeat") : j < i /\ calls[j].outcome = "returned"
    /\ (\E j \in CallsTo("reserveSeat") : calls[j].outcome # "returned")
          => CallsTo("makePayment") = {}

C1_Witness ==
    /\ pc = "Failed"
    /\ RequestIsValid
    /\ Len(calls) = 1
    /\ calls[1].op = "reserveSeat"
    /\ calls[1].outcome = "Error"

\* C2: a call that fails validation, and any call on a request that breaks a
\* validation rule, has invoked neither reserveSeat nor makePayment.
C2_RejectedNeverApplied ==
    /\ FailedValidation => calls = <<>>
    /\ (pc # "idle" /\ ~RequestIsValid) => calls = <<>>
    /\ (ValidationDone /\ ~RequestIsValid) => FailedValidation

C2_Witness ==
    /\ Threw("InvalidPurchaseException", "error_too_many_infants")
    /\ calls = <<>>

\* C3: when validation passed, reserveSeat returned and makePayment threw
\* (whatever it threw), the call throws InvalidPurchaseException with
\* messages.payment_error: not a seat reservation message, not a Confirmation.
C3_PaymentFailureMessage ==
    \A i \in CallsTo("makePayment") :
        calls[i].outcome # "returned" =>
            /\ pc = "Failed"
            /\ result.kind = "InvalidPurchaseException"
            /\ result.message = messages["payment_error"]
            /\ result.message # messages["seat_reservation_error"]
            /\ result.message # messages["seat_reservation_failed"]
            /\ result.transactionId = NoId

\* C4: within one call each collaborator is invoked at most once and the call
\* only moves forward through Created, Validated, SeatsReserved, Paid,
\* Confirmed; a failure ends the call with an error, after which no collaborator
\* is called and no earlier state is entered again.
Rank(p) ==
    CASE p = "idle"          -> 0
      [] p = "Created"       -> 1
      [] p = "Validated"     -> 2
      [] p = "SeatsReserved" -> 3
      [] p = "Paid"          -> 4
      [] p = "Confirmed"     -> 5
      [] p = "Failed"        -> 6

C4_Step ==
    /\ pc' # pc =>
          \/ pc \in {"Confirmed", "Failed"} /\ pc' = "idle"
          \/ pc \notin {"Confirmed", "Failed"} /\ pc' = "Failed" /\ pc # "idle"
          \/ pc \notin {"Confirmed", "Failed"} /\ Rank(pc') = Rank(pc) + 1
    /\ pc' = pc => calls' = calls
    /\ pc = "Failed" => calls' \in {calls, <<>>}
    /\ (pc # "Failed" /\ pc' = "Failed") =>
          result'.kind \in {"TypeError", "InvalidPurchaseException"}
    /\ \A i, j \in 1..Len(calls') : calls'[i].op = calls'[j].op => i = j

C4_ForwardOnly == [][C4_Step]_vars

C4_Witness ==
    /\ pc = "Failed"
    /\ Len(calls) = 2
    /\ calls[2].op = "makePayment"
    /\ calls[2].outcome = "Error"
    /\ result.message = messages["payment_error"]

\* C5: a finished call returned a Confirmation exactly when the request is
\* valid and reserveSeat and makePayment both returned normally; the
\* Confirmation carries messages.purchase_successful and the transaction id
\* generated at the start of that call.
C5_ConfirmationIff ==
    pc \in {"Confirmed", "Failed"} =>
        /\ result.kind = "Confirmation" <=>
              /\ RequestIsValid
              /\ Len(calls) = 2
              /\ calls[1].op = "reserveSeat" /\ calls[1].outcome = "returned"
              /\ calls[2].op = "makePayment" /\ calls[2].outcome = "returned"
        /\ result.kind = "Confirmation" =>
              /\ pc = "Confirmed"
              /\ result.message = messages["purchase_successful"]
              /\ result.transactionId = transactionId
              /\ result.transactionId = composeId(gen.lastTimestamp, gen.sequence)
              /\ result.transactionId # NoId
        /\ pc = "Confirmed" => result.kind = "Confirmation"

C5_Witness ==
    /\ pc = "Confirmed"
    /\ result.kind = "Confirmation"
    /\ Len(ticketTypeRequests) = 3
    /\ calls[1].amount = 3
    /\ calls[2].amount = 65
    /\ nCalls = 2

\* C6: a call whose accountId is 0, negative or not an integer fails with
\* TypeError(messages.invalid_request) whatever the line items, and invokes no
\* collaborator.
C6_InvalidAccountId ==
    (pc # "idle" /\ (accountId <= 0 \/ accountId % 2 # 0)) =>
        /\ calls = <<>>
        /\ pc \in {"Created", "Failed"}
        /\ pc = "Failed" =>
              /\ result.kind = "TypeError"
              /\ result.message = messages["invalid_request"]

C6_Witness ==
    /\ pc = "Failed"
    /\ accountId = 3
    /\ WellFormedItems(ticketTypeRequests)
    /\ result.kind = "TypeError"

\* C7: with a valid accountId, a call with no line items, or with an element
\* that is not a TicketTypeRequest, fails with TypeError(messages.invalid_request)
\* (not with a business-rule error) and invokes no collaborator.
C7_MalformedLineItems ==
    (pc # "idle" /\ PositiveInteger(accountId)
       /\ ~WellFormedItems(ticketTypeRequests)) =>
        /\ calls = <<>>
        /\ pc \in {"Created", "Failed"}
        /\ pc = "Failed" =>
              /\ result.kind = "TypeError"
              /\ result.message = messages["invalid_request"]

C7_Witness ==
    /\ pc = "Failed"
    /\ PositiveInteger(accountId)
    /\ ticketTypeRequests = <<>>
    /\ result.kind = "TypeError"

\* C8: a structurally valid request in which a category appears in more than
\* one line item fails with InvalidPurchaseException(duplicate_ticket_type_error)
\* whatever the counts are, and invokes no collaborator.
C8_DuplicateCategory ==
    (pc # "idle" /\ StructurallyValid /\ HasDuplicateCategory) =>
        /\ calls = <<>>
        /\ pc \in {"Created", "Failed"}
        /\ pc = "Failed" =>
              /\ result.kind = "InvalidPurchaseException"
              /\ result.message = messages["duplicate_ticket_type_error"]

C8_Witness ==
    /\ Threw("InvalidPurchaseException", "duplicate_ticket_type_error")
    /\ StructurallyValid
    /\ TotalCount > 25
    /\ InfantTotal > AdultTotal

\* C9: for a structurally valid, duplicate-free request the count check uses
\* the sum of all counts, INFANT included: the call fails with
\* min_number_tickets_err iff the sum is below 1, with max_allowed_tickets_err
\* (carrying the limit 25) iff the sum is above 25, and with neither for 1..25.
C9_CountBounds ==
    (ValidationDone /\ StructurallyValid /\ ~HasDuplicateCategory) =>
        /\ Threw("InvalidPurchaseException", "min_number_tickets_err")
              <=> TotalCount < 1
        /\ Threw("InvalidPurchaseException", "max_allowed_tickets_err")
              <=> TotalCount > 25
        /\ Threw("InvalidPurchaseException", "max_allowed_tickets_err")
              => /\ \E i \in 1..Len(result.message) : result.message[i] = "25"
                 /\ \A i \in 1..Len(result.message) :
                        result.message[i] # "{allowedTickets}"
        /\ (TotalCount >= 1 /\ TotalCount <= 25 /\ pc = "Failed") =>
              Head(result.message) \notin
                  {"min_number_tickets_err", "max_allowed_tickets_err",
                   "invalid_request", "duplicate_ticket_type_error"}

C9_Witness ==
    /\ pc = "Validated"
    /\ TotalCount = 25
    /\ AdultTotal = 25

\* C10: a structurally valid, duplicate-free request with total count in 1..25
\* and no ADULT ticket fails with InvalidPurchaseException(error_adult_required)
\* and invokes no collaborator.
C10_AdultRequired ==
    (pc # "idle" /\ StructurallyValid /\ ~HasDuplicateCategory
       /\ TotalCount >= 1 /\ TotalCount <= 25 /\ AdultTotal = 0) =>
        /\ calls = <<>>
        /\ pc \in {"Created", "Failed"}
        /\ pc = "Failed" =>
              /\ result.kind = "InvalidPurchaseException"
              /\ result.message = messages["error_adult_required"]

C10_Witness ==
    /\ Threw("InvalidPurchaseException", "error_adult_required")
    /\ Len(ticketTypeRequests) = 1
    /\ ticketTypeRequests[1].type = "INFANT"
    /\ ticketTypeRequests[1].noOfTickets = 2

\* C11: a structurally valid, duplicate-free request with total count in
\* 1..25, ADULT >= 1 and INFANT > ADULT fails with
\* InvalidPurchaseException(error_too_many_infants) whatever the CHILD count,
\* and invokes no collaborator; with INFANT <= ADULT that error never occurs.
C11_TooManyInfants ==
    /\ (pc # "idle" /\ StructurallyValid /\ ~HasDuplicateCategory
          /\ TotalCount >= 1 /\ TotalCount <= 25
          /\ AdultTotal >= 1 /\ InfantTotal > AdultTotal) =>
          /\ calls = <<>>
          /\ pc \in {"Created", "Failed"}
          /\ pc = "Failed" =>
                /\ result.kind = "InvalidPurchaseException"
                /\ result.message = messages["error_too_many_infants"]
    /\ (pc = "Failed" /\ result.message = messages["error_too_many_infants"])
          => (StructurallyValid /\ InfantTotal > AdultTotal)

C11_Witness ==
    /\ Threw("InvalidPurchaseException", "error_too_many_infants")
    /\ AdultTotal = 1
    /\ InfantTotal = 2
    /\ ChildTotal = 2

\* C12: validation is a first-failure-wins chain: accountId, line items,
\* duplicate category, total below minimum, total above limit, adult required,
\* infant capacity.  The error of a call is that of the first violated check.
FirstViolated ==
    IF ~PositiveInteger(accountId) THEN "invalid_request"
    ELSE IF ~WellFormedItems(ticketTypeRequests) THEN "invalid_request"
    ELSE IF HasDuplicateCategory THEN "duplicate_ticket_type_error"
    ELSE IF TotalCount < 1 THEN "min_number_tickets_err"
    ELSE IF TotalCount > 25 THEN "max_allowed_tickets_err"
    ELSE IF AdultTotal = 0 /\ (ChildTotal > 0 \/ InfantTotal > 0)
         THEN "error_adult_required"
    ELSE IF InfantTotal > AdultTotal THEN "error_too_many_infants"
    ELSE "none"

C12_FirstFailureWins ==
    ValidationDone =>
        /\ FirstViolated = "none" => ~FailedValidation
        /\ FirstViolated # "none" =>
              /\ pc = "Failed"
              /\ Head(result.message) = FirstViolated
              /\ result.kind = (IF FirstViolated = "invalid_request"
                                THEN "TypeError" ELSE "InvalidPurchaseException")

C12_Witness ==
    /\ Threw("InvalidPurchaseException", "max_allowed_tickets_err")
    /\ Len(ticketTypeRequests) = 1
    /\ InfantTotal = 26

\* C13: reserveSeat is called with the accountId of the call and the sum of
\* the ADULT and CHILD counts, makePayment with the same accountId and
\* 25*ADULT + 15*CHILD; INFANT tickets add to neither.
C13_CollaboratorArguments ==
    /\ \A i \in 1..Len(calls) : calls[i].accountId = accountId
    /\ \A i \in CallsTo("reserveSeat") : calls[i].amount = AdultTotal + ChildTotal
    /\ \A i \in CallsTo("makePayment") :
          calls[i].amount = 25 * AdultTotal + 15 * ChildTotal
    /\ pc \in {"SeatsReserved", "Paid", "Confirmed"} => CallsTo("reserveSeat") # {}
    /\ pc \in {"Paid", "Confirmed"} => CallsTo("makePayment") # {}

C13_Witness ==
    /\ pc = "Paid"
    /\ AdultTotal = 2 /\ ChildTotal = 1 /\ InfantTotal = 1
    /\ calls[1].amount = 3
    /\ calls[2].amount = 65

\* C18: a thrown reserveSeat is classified by kind only: a TypeError gives
\* InvalidPurchaseException(seat_reservation_error), anything else thrown
\* gives InvalidPurchaseException(seat_reservation_failed), and the two
\* differ.
C18_SeatFailureClassified ==
    /\ messages["seat_reservation_error"] # messages["seat_reservation_failed"]
    /\ \A i \in CallsTo("reserveSeat") :
          /\ calls[i].outcome = "TypeError" =>
                /\ pc = "Failed"
                /\ result.kind = "InvalidPurchaseException"
                /\ result.message = messages["seat_reservation_error"]
          /\ calls[i].outcome \notin {"returned", "TypeError"} =>
                /\ pc = "Failed"
                /\ result.kind = "InvalidPurchaseException"
                /\ result.message = messages["seat_reservation_failed"]

\* C19 as stated: a TypeError thrown by makePayment reaches the caller in a
\* form that differs from the one an operational payment failure has.
C19_PaymentVariantsDistinct ==
    \A i \in CallsTo("makePayment") :
        calls[i].outcome = "TypeError" =>
            result # Thrown(paymentCatch("Error", transactionId))

\* C19 amended: a TypeError and any other Error object thrown by makePayment
\* reach the caller as the same InvalidPurchaseException(payment_error); only
\* the log level tells them apart (error for a TypeError, warn otherwise).
C19_PaymentVariantsSame ==
    \A i \in CallsTo("makePayment") :
        calls[i].outcome \in {"TypeError", "Error"} =>
            /\ result = [kind |-> "InvalidPurchaseException",
                         message |-> messages["payment_error"],
                         transactionId |-> NoId]
            /\ log[Len(log)].event = "payment_error"
            /\ log[Len(log)].level =
                  (IF calls[i].outcome = "TypeError" THEN "error" ELSE "warn")

C19_Witness ==
    /\ pc = "Failed"
    /\ Len(calls) = 2
    /\ calls[2].outcome = "TypeError"
    /\ log[Len(log)].level = "error"
    /\ result.message = messages["payment_error"]

\* C20: an exception leaving purchaseTickets is either a
\* TypeError(invalid_request) raised by the structural checks, before any
\* collaborator call, or an InvalidPurchaseException with a reason; a thrown
\* collaborator error always arrives wrapped in the latter.
C20_TwoErrorShapes ==
    /\ pc = "Failed" =>
          \/ /\ result.kind = "TypeError"
             /\ result.message = messages["invalid_request"]
             /\ ~StructurallyValid
             /\ calls = <<>>
          \/ /\ result.kind = "InvalidPurchaseException"
             /\ result.message # <<>>
             /\ (StructurallyValid \/ calls # <<>>)
    /\ \A i \in 1..Len(calls) :
          calls[i].outcome # "returned" =>
              pc = "Failed" /\ result.kind = "InvalidPurchaseException"

\* The ids of a history, as the strings returned, are pairwise distinct.
PairwiseDistinct(history) ==
    \A i, j \in 1..Len(history) :
        i < j => toString(history[i]) # toString(history[j])

\* A step in which a serialized generateId call returned.
GenerateIdReturned == <<gen, issued>>' # <<gen, issued>>

\* C14: serialized generateId calls on one instance under a non-decreasing
\* clock never return an id returned before, calls within one millisecond
\* included.
C14_DistinctIds ==
    [][GenerateIdReturned =>
          /\ transactionId' # NoId
          /\ transactionId' # transactionId
          /\ \A i \in 1..Len(issued) : transactionId' # toString(issued[i])
          /\ PairwiseDistinct(issued')]_vars

C14_Witness ==
    /\ gen.lastTimestamp = 0
    /\ gen.sequence = SequenceModulus - 1
    /\ transactionId = composeId(0, SequenceModulus - 1)
    /\ issued[1] = composeValue(0, 0)

\* C15: under the same conditions every returned id is, as a number,
\* strictly greater than every id returned earlier on the instance.
C15_StrictlyIncreasing ==
    [][GenerateIdReturned =>
          LET value == issued'[Len(issued')] IN
          /\ transactionId' = toString(value)
          /\ \A i \in 1..Len(issued) : value > issued[i]]_vars

C15_Witness ==
    /\ gen.lastTimestamp = 1
    /\ gen.sequence = 1
    /\ Len(issued) = 3
    /\ issued[1] = composeValue(0, 0)
    /\ issued[2] = composeValue(0, 1)
    /\ issued[3] = composeValue(1, 1)

\* C16 as stated: generateId can be called by concurrent callers on one
\* instance without locking, and no two calls ever return the same id.
C16_NoDuplicateIds == PairwiseDistinct(issued)

\* C16 amended: the calls of concurrent callers never interleave, at most one
\* generateId call of the instance is in flight at any time; and as long as
\* the clock has not been set back, no two calls have returned the same id.
C16_DistinctWhileClockNotSetBack ==
    /\ Cardinality({c \in Callers : InFlight(c)}) <= 1
    /\ ~rolledBack => PairwiseDistinct(issued)

C16_Witness ==
    /\ ~rolledBack
    /\ nCalls = 3
    /\ issued = <<composeValue(0, 0), composeValue(0, 1), composeValue(1, 0)>>
    /\ \A c \in Callers : ~InFlight(c)

C21_PaymentErrorReachesCaller ==
    \A i \in CallsTo("makePayment") :
        calls[i].outcome # "returned" =>
            /\ pc = "Failed"
            /\ result.kind = "InvalidPurchaseException"
            /\ result.message = messages["payment_error"]

\* C22: within one millisecond T the sequence runs through 0..4095 only; the
\* call whose increment wraps the sequence to 0 enters the wait, leaves it
\* only with a clock reading strictly greater than lastTimestamp, and returns
\* the id of that later timestamp with sequence 0.
C22_WrapWaitsForLaterMillisecond ==
    [][   /\ gen.sequence \in 0..(SequenceModulus - 1)
          /\ \A c \in Callers :
                /\ (threads[c].pc = "line19" /\ threads'[c].pc = "line20") =>
                      /\ threads[c].timestamp = gen.lastTimestamp
                      /\ gen'.sequence = (IF gen.sequence = SequenceModulus - 1
                                          THEN 0 ELSE gen.sequence + 1)
                /\ (threads[c].pc = "line20" /\ threads'[c].pc # "line20") =>
                      threads'[c].pc = (IF gen.sequence = 0 THEN "line21" ELSE "line29")
                /\ threads[c].pc = "line21" =>
                      /\ gen.sequence = 0
                      /\ threads[c].timestamp <= gen.lastTimestamp =>
                            threads'[c].pc = "line21"
                      /\ threads'[c].pc # "line21" =>
                            /\ threads'[c].pc = "line29"
                            /\ threads[c].timestamp > gen.lastTimestamp
                            /\ threads[c].timestamp <= now
                /\ threads[c].pc \in {"line21", "line29", "line31"} =>
                      gen'.sequence = gen.sequence
                /\ (threads[c].pc = "line31" /\ threads'[c].pc = "idle") =>
                      /\ gen.lastTimestamp = threads[c].timestamp
                      /\ transactionId' = composeId(threads[c].timestamp, gen.sequence)]_vars

C22_Witness ==
    /\ issued = <<composeValue(0, 0), composeValue(0, SequenceModulus - 1)>>
    /\ gen = [lastTimestamp |-> 0, sequence |-> 0]
    /\ \E c \in Callers : threads[c] = [pc |-> "line21", timestamp |-> 1]

\* C23: the id returned, read as an integer, is
\* t * 2^22 + (machineId mod 1024) * 2^12 + s for the timestamp t and the
\* sequence s (0..4095) the call stored; the three fields do not overlap and
\* are recovered from the id by division and remainder.
C23_IdLayout ==
    gen.lastTimestamp >= 0 =>
        LET t == gen.lastTimestamp
            s == gen.sequence IN
        /\ s \in 0..4095
        /\ transactionId = toString(t * 2^22 + (machineId % 1024) * 2^12 + s)
        /\ issued[Len(issued)] = t * 2^22 + (machineId % 1024) * 2^12 + s
        /\ \A m \in MachineIds :
              LET v == composeValueWith(maskMachineId(m), t, s) IN
              /\ v = t * 2^22 + (m % 1024) * 2^12 + s
              /\ v \div 2^22 = t
              /\ (v \div 2^12) % 1024 = m % 1024
              /\ v % 2^12 = s

C23_Witness ==
    /\ gen = [lastTimestamp |-> 1, sequence |-> SequenceModulus - 1]
    /\ transactionId = toString(2^22 + 2^12 + 4095)
    /\ composeValueWith(maskMachineId(1025), 1, 4095) = 2^22 + 2^12 + 4095

\* The clock of the model has reached its horizon without passing
\* lastTimestamp while caller c waits in the loop of lines 21-23.
WaitingAtHorizon(c) ==
    /\ threads[c].pc = "line21"
    /\ now = MaxClock
    /\ now <= gen.lastTimestamp

\* C24: when the clock keeps advancing, every generateId call returns, unless
\* the clock can no longer read a value above lastTimestamp; a call in flight
\* can always take its next statement except in the wait loop; and while the
\* clock reads no value above lastTimestamp a waiting call does not leave the
\* loop.
C24_TerminatesIfClockAdvances ==
    /\ \A c \in Callers :
          InFlight(c) ~> (~InFlight(c) \/ WaitingAtHorizon(c))
    /\ [](\A c \in Callers :
            (InFlight(c) /\ threads[c].pc # "line21") =>
                ENABLED <<StatementOf(c)>>_vars)
    /\ [][\A c \in Callers :
            (threads[c].pc = "line21" /\ now' <= gen.lastTimestamp) =>
                threads'[c].pc = "line21"]_vars

C24_Witness ==
    \E c \in Callers :
        /\ threads[c].pc = "line21"
        /\ threads[c].timestamp <= gen.lastTimestamp
        /\ now > gen.lastTimestamp

\* C25 as stated: a clock reading below lastTimestamp is waited out, so the
\* stored lastTimestamp never decreases from one call to the next.
C25_LastTimestampNeverDecreases ==
    [][gen'.lastTimestamp >= gen.lastTimestamp]_vars

\* C25 amended: the wait covers sequence exhaustion only.  A call that reads
\* a clock value below lastTimestamp returns at once with that earlier
\* timestamp and sequence 0 and stores it, so lastTimestamp decreases;
\* lastTimestamp does not decrease in a call that reads a clock value at or
\* above it.
C25_RollbackNotWaitedOut ==
    [][GenerateIdReturned =>
          /\ now < gen.lastTimestamp =>
                /\ gen' = [lastTimestamp |-> now, sequence |-> 0]
                /\ now' = now
                /\ transactionId' = composeId(now, 0)
          /\ now >= gen.lastTimestamp =>
                gen'.lastTimestamp >= gen.lastTimestamp]_vars

C25_Witness ==
    /\ Len(issued) = 2
    /\ issued[1] = composeValue(1, 0)
    /\ issued[2] = composeValue(0, 0)
    /\ gen = [lastTimestamp |-> 0, sequence |-> 0]

\* C26: a request for which reserveSeat is invoked has accountId > 0, at
\* least one line item, and a count > 0 in every single line item.
C26_ValidatedCountsPositive ==
    (pc = "Validated" \/ calls # <<>>) =>
        /\ accountId > 0
        /\ ticketTypeRequests # <<>>
        /\ \A i \in 1..Len(ticketTypeRequests) :
              ticketTypeRequests[i].noOfTickets > 0

\* C27: on category totals with a total count of 1..25,
\* TicketValidator.verifyTicketOrder accepts exactly when ADULT >= 1 whenever
\* CHILD > 0 or INFANT > 0, and INFANT <= ADULT.
C27_ValidatorCompositionRules ==
    (ValidationDone /\ accountId > 0 /\ WellFormedItems(ticketTypeRequests)
       /\ TotalCount >= 1 /\ TotalCount <= 25) =>
        ((pc = "Validated" \/ calls # <<>>)
            <=> /\ (ChildTotal > 0 \/ InfantTotal > 0) => AdultTotal >= 1
                /\ InfantTotal <= AdultTotal)

\* C28: in the service with the injected validator a request with two line
\* items of one category fails with the duplicate-category error and reaches
\* neither reserveSeat nor makePayment.
C28_InjectedDuplicateRejected ==
    (ValidationDone /\ PositiveInteger(accountId)
       /\ WellFormedItems(ticketTypeRequests) /\ HasDuplicateCategory) =>
        /\ pc = "Failed"
        /\ calls = <<>>
        /\ result.kind = "InvalidPurchaseException"
        /\ result.message = messages["duplicate_ticket_type_error"]

\* C29: in the service with the injected validator a call whose accountId is
\* not a positive integer, or that has no line items, fails with
\* TypeError(messages.invalid_request) before any collaborator is invoked.
C29_InjectedMalformedRequest ==
    (ValidationDone
       /\ (~PositiveInteger(accountId) \/ ticketTypeRequests = <<>>)) =>
        /\ pc = "Failed"
        /\ calls = <<>>
        /\ result.kind = "TypeError"
        /\ result.message = messages["invalid_request"]

\* The errors of #verifyTicketOrder, which the service does not log itself.
OrderMessageKeys ==
    {"min_number_tickets_err", "max_allowed_tickets_err",
     "error_adult_required", "error_too_many_infants"}

\* C30: on every failure path of purchaseTickets log entries carrying the
\* transaction id of the call have been emitted when the exception reaches the
\* caller.  For structural and duplicate failures and for a collaborator
\* that threw an Error object the latest entry is the error or warn entry of
\* the failure; for count and composition failures it is the info entry with
\* the ticket summary, and for a collaborator that threw null or undefined
\* the info entry emitted before the collaborator call.
C30_FailureHasLogEntries ==
    pc = "Failed" =>
        /\ transactionId # NoId
        /\ log # <<>>
        /\ \A i \in 1..Len(log) : log[i].transactionId = transactionId
        /\ log[1] = LogEntry("info", transactionId, "account_id")
        /\ IF Head(result.message) \in OrderMessageKeys
           THEN log[Len(log)] = LogEntry("info", transactionId, "ticket_summary")
           ELSE IF calls # <<>> /\ calls[Len(calls)].outcome \in Nullish
           THEN log[Len(log)] =
                    LogEntry("info", transactionId,
                             IF Len(calls) = 1 THEN "ticket_summary"
                             ELSE "seat_reservation_successful")
           ELSE log[Len(log)].level \in {"error", "warn"}

C30_Witness ==
    /\ pc = "Failed"
    /\ Threw("InvalidPurchaseException", "error_adult_required")
    /\ Len(log) = 2
    /\ log[2].level = "info"
    /\ log[2].transactionId = composeId(0, 0)

\* What the caller of the current call observes: the kind and message of
\* what was returned or thrown, and the collaborator calls made.
Observed == [kind |-> result.kind, message |-> result.message, calls |-> calls]

\* C31: a purchaseTickets call changes nothing of the service but the
\* generator's lastTimestamp and sequence, and only at its first statement;
\* the submitted accountId and line items stay as given; what a call returns
\* or throws and the calls it makes are a function of its own arguments and of
\* what the collaborators do, whatever purchases were made before.
C31_OnlyGeneratorStatePersists ==
    [][/\ (pc # "idle" /\ pc' # "idle") =>
             /\ accountId' = accountId
             /\ ticketTypeRequests' = ticketTypeRequests
             /\ transactionId' = transactionId
             /\ gen' = gen
       /\ gen' # gen => (pc = "idle" /\ pc' = "Created")
       /\ pc' = "Created" => (calls' = <<>> /\ result' = NoResult)
       /\ pc' \in {"Confirmed", "Failed"} =>
             \E seat, payment \in CollaboratorBehaviours :
                 Observed' = OutcomeOf(accountId', ticketTypeRequests', seat, payment)]_vars

C31_Witness ==
    /\ nCalls = 2
    /\ pc = "Confirmed"
    /\ gen = [lastTimestamp |-> 1, sequence |-> 0]
    /\ issued = <<composeValue(0, 0), composeValue(1, 0)>>
    /\ Len(calls) = 2
    /\ calls[2].amount = 40

\* Every line item of the current call has a count that is not negative.
CountsNonNegative ==
    \A i \in 1..Len(ticketTypeRequests) :
        /\ ticketTypeRequests[i].isTicketTypeRequest
        /\ ticketTypeRequests[i].noOfTickets >= 0

\* C32: for a request whose counts are all non-negative, every reserveSeat
\* call asks for 1..25 seats and the order has at least one ADULT ticket, and
\* every makePayment call asks for an amount of 25..625; no reservation of
\* zero seats and no payment of zero is requested.
C32_CollaboratorArgumentRanges ==
    CountsNonNegative =>
        /\ \A i \in CallsTo("reserveSeat") :
              /\ calls[i].amount >= 1
              /\ calls[i].amount <= MAX_TICKETS_PER_ORDER
              /\ AdultTotal >= 1
        /\ \A i \in CallsTo("makePayment") :
              /\ calls[i].amount >= ticketCost["ADULT"]
              /\ calls[i].amount <= MAX_TICKETS_PER_ORDER * ticketCost["ADULT"]

C32_Witness ==
    /\ CountsNonNegative
    /\ pc = "Paid"
    /\ Len(ticketTypeRequests) = 1
    /\ AdultTotal = 25
    /\ calls[1].op = "reserveSeat" /\ calls[1].amount = 25
    /\ calls[2].op = "makePayment" /\ calls[2].amount = 625

\* The decimal strings of the ids instance i has returned.
IdsOf(i) == {toString(instances[i].ids[k]) : k \in 1..Len(instances[i].ids)}

\* C33: two generator instances constructed with machine ids that differ
\* modulo 1024 never return the same id, whatever their clocks read and in
\* whatever order they are called; two instances constructed with machine
\* ids congruent modulo 1024 return the same id whenever they issue at the
\* same timestamp and sequence.
C33_DistinctAcrossMachines ==
    \A i, j \in Instances :
        i # j =>
            LET gi == instances[i].generator
                gj == instances[j].generator IN
            IF instances[i].constructedWith % 1024
                   # instances[j].constructedWith % 1024
            THEN IdsOf(i) \cap IdsOf(j) = {}
            ELSE (/\ instances[i].ids # <<>>
                  /\ instances[j].ids # <<>>
                  /\ gi.lastTimestamp = gj.lastTimestamp
                  /\ gi.sequence = gj.sequence)
                     => IdsOf(i) \cap IdsOf(j) # {}

C33_Witness ==
    /\ instances["a"].constructedWith = 1
    /\ instances["b"].constructedWith = 1023
    /\ Len(instances["a"].ids) = 2
    /\ Len(instances["b"].ids) = 2
    /\ instances["a"].generator.lastTimestamp = 1
    /\ instances["b"].generator.lastTimestamp = 1
    /\ instances["a"].generator.sequence = 0
    /\ instances["b"].generator.sequence = 0
    /\ instances["a"].ids[1] = composeValueWith(1, 0, SequenceModulus - 1)
    /\ instances["b"].ids[1] = composeValueWith(1023, 0, SequenceModulus - 1)

\* The fields of instance i are in range and its lastTimestamp is that of
\* the id it returned last.
FieldsInRange(i) ==
    LET g == instances[i].generator
        ids == instances[i].ids IN
    /\ g.sequence >= 0 /\ g.sequence <= 4095
    /\ g.machineId >= 0 /\ g.machineId <= 1023
    /\ IF ids = <<>>
       THEN g.lastTimestamp = -1
       ELSE g.lastTimestamp = ids[Len(ids)] \div 2^22

\* C35: in every state of a generator instance between calls, sequence is in
\* 0..4095 and machineId in 0..1023, lastTimestamp is -1 when no id has been
\* returned and otherwise the timestamp component of the id returned last;
\* machineId and customEpoch keep the values the constructor gave them.
C35_GeneratorFieldInvariants ==
    /\ [](\A i \in Instances : FieldsInRange(i))
    /\ [][\A i \in Instances :
             /\ instances'[i].generator.machineId
                    = instances[i].generator.machineId
             /\ instances'[i].generator.customEpoch
                    = instances[i].generator.customEpoch
             /\ instances'[i].generator.machineId
                    = instances[i].constructedWith % 1024]_vars

C35_Witness ==
    /\ instances["a"].constructedWith = 1025
    /\ instances["a"].generator.machineId = 1
    /\ instances["a"].generator.sequence = 0
    /\ instances["a"].generator.lastTimestamp = 1
    /\ instances["a"].ids = <<composeValueWith(1, 0, SequenceModulus - 1),
                              composeValueWith(1, 1, 0)>>
    /\ instances["b"].ids = <<>>
    /\ instances["b"].generator.lastTimestamp = -1

\* The line items of the current call in every order.
Reorderings ==
    {[i \in 1..Len(ticketTypeRequests) |-> ticketTypeRequests[f[i]]] :
        f \in Permutations(1..Len(ticketTypeRequests))}

\* What the collaborators did in the current call, as far as they were called.
SeatBehaviour == IF Len(calls) >= 1 THEN calls[1].outcome ELSE "returned"

PaymentBehaviour == IF Len(calls) >= 2 THEN calls[2].outcome ELSE "returned"

\* C34: what purchaseTickets returns or throws and the arguments it passes to
\* reserveSeat and makePayment do not depend on the order of the line items:
\* the finished call's outcome kind, message and collaborator calls are those
\* of every reordering of its line items under the same accountId and the same
\* collaborator behaviour.
C34_OrderOfLineItemsIrrelevant ==
    pc \in {"Confirmed", "Failed"} =>
        \A reordered \in Reorderings :
            OutcomeOf(accountId, reordered, SeatBehaviour, PaymentBehaviour)
                = Observed

C34_Witness ==
    /\ pc = "Confirmed"
    /\ Len(ticketTypeRequests) = 3
    /\ ticketTypeRequests[1].type = "INFANT"
    /\ ticketTypeRequests[2].type = "CHILD"
    /\ ticketTypeRequests[3].type = "ADULT"
    /\ calls[1].amount = 3
    /\ calls[2].amount = 65
    /\ Cardinality(Reorderings) = 6

\* C36: the service with the validation inlined (part_002) and the service
\* with the validation extracted (part_001) behave alike: for every
\* accountId, line items and collaborator behaviour, a finished call of the
\* inlined service has the outcome of the extracted one (a confirmation with
\* the same message, or an error of the same type and message) and has made
\* the same collaborator calls with the same arguments in the same order.
C36_InlinedEquivalentToExtracted ==
    /\ pc \in {"Confirmed", "Failed"} =>
          Observed = OutcomeOf(accountId, ticketTypeRequests,
                               SeatBehaviour, PaymentBehaviour)
    /\ pc \in {"Validated", "SeatsReserved", "Paid"} =>
          /\ validationPhase(accountId, ticketTypeRequests, transactionId).kind
                = "none"
          /\ \A i \in 1..Len(calls) :
                calls[i] = OutcomeOf(accountId, ticketTypeRequests,
                                     "returned", "returned").calls[i]
    /\ pc = "Confirmed" => result.transactionId = transactionId

C36_Witness ==
    /\ pc = "Failed"
    /\ result.kind = "InvalidPurchaseException"
    /\ result.message = messages["payment_error"]
    /\ Len(calls) = 2
    /\ calls[1] = Call("reserveSeat", 2, 3, "returned")
    /\ calls[2] = Call("makePayment", 2, 65, "Error")
    /\ log[3] = LogEntry("info", transactionId, "total_seats")

===========================================================================
